---- MODULE Spec2Model ----
(***************************************************************************)
(* Bytecode emission and structural equality of the expression nodes of    *)
(* src/expression.rs (ConditionalExpr, BinaryExpr, CallExpr,               *)
(* IdentifierExpr and f64).                                                *)
(***************************************************************************)
EXTENDS Integers, Sequences, FiniteSets, TLC

VARIABLES expr, other, env, bc, prior, result, equal, runs

vars == <<expr, other, env, bc, prior, result, equal, runs>>

(***************************************************************************)
(* Bounds of the explored inputs.                                          *)
(***************************************************************************)
MaxNodes == 4
MaxDepth == 2
MaxArgs == 4
MaxRuns == 2
MaxEqNodes == 4
MaxEqArgs == 2

(***************************************************************************)
(* f64 values: finite numbers with a sign (so that 0.0 and -0.0 are        *)
(* different values) and NaN.  F64Eq is the == of f64.                     *)
(***************************************************************************)
F64(n) == [tag |-> "num", neg |-> (n < 0), mag |-> IF n < 0 THEN 0 - n ELSE n]

NegZero == [tag |-> "num", neg |-> TRUE, mag |-> 0]

NaN == [tag |-> "nan", neg |-> FALSE, mag |-> 0]

F64Eq(a, b) ==
    /\ a.tag = "num"
    /\ b.tag = "num"
    /\ a.mag = b.mag
    /\ (a.neg = b.neg \/ a.mag = 0)

(***************************************************************************)
(* Expression nodes.                                                       *)
(***************************************************************************)
Const(v) == [kind |-> "Const", value |-> v]

IdentifierExpr(l, c, name) ==
    [kind |-> "Identifier", line |-> l, column |-> c, identifier |-> name]

CallExpr(l, c, f, args) ==
    [kind |-> "Call", line |-> l, column |-> c, function |-> f,
     arguments |-> args]

BinaryExpr(l, o, r) ==
    [kind |-> "Binary", left |-> l, operator |-> o, right |-> r]

ConditionalExpr(c, t, f) ==
    [kind |-> "Conditional", condition |-> c, when_true |-> t,
     when_false |-> f]

BinaryOperator ==
    {"LessThan", "LessEqual", "GreaterEqual", "GreaterThan", "Equal",
     "Add", "Sub", "Multiply", "Divide", "Remainder"}

(***************************************************************************)
(* Bytecode instructions.                                                  *)
(***************************************************************************)
LoadConst(v) == [op |-> "LoadConst", value |-> v]

LoadItem(i) == [op |-> "LoadItem", index |-> i]

Call(i, l, c) == [op |-> "Call", func_index |-> i, line |-> l, column |-> c]

CallVararg(i, n, l, c) ==
    [op |-> "CallVararg", func_index |-> i, num_args |-> n, line |-> l,
     column |-> c]

JumpIfZero(n) == [op |-> "JumpIfZero", offset |-> n]

Jump(n) == [op |-> "Jump", offset |-> n]

BinaryOpcode(o) ==
    CASE o = "LessThan" -> [op |-> "LessThan"]
      [] o = "LessEqual" -> [op |-> "LessEqual"]
      [] o = "GreaterEqual" -> [op |-> "GreaterEqual"]
      [] o = "GreaterThan" -> [op |-> "GreaterThan"]
      [] o = "Equal" -> [op |-> "Equal"]
      [] o = "Add" -> [op |-> "Add"]
      [] o = "Sub" -> [op |-> "Sub"]
      [] o = "Multiply" -> [op |-> "Multiply"]
      [] o = "Divide" -> [op |-> "Divide"]
      [] o = "Remainder" -> [op |-> "Remainder"]

(***************************************************************************)
(* The Environment collaborator (crate::environment): slots of the items   *)
(* and signatures of the functions, both indexed from 0.                   *)
(***************************************************************************)
None == 0 - 1

index_of_item(e, name) ==
    IF \E i \in 1..Len(e.items) : e.items[i] = name
    THEN (CHOOSE i \in 1..Len(e.items) : e.items[i] = name) - 1
    ELSE None

function_info(e, name) ==
    IF \E i \in 1..Len(e.functions) : e.functions[i].name = name
    THEN LET i == CHOOSE j \in 1..Len(e.functions) : e.functions[j].name = name
         IN  [index |-> i - 1, func |-> e.functions[i].sig]
    ELSE [index |-> None, func |-> "None"]

(***************************************************************************)
(* Result<(), Error> of an emission together with the buffer it leaves.    *)
(***************************************************************************)
NoError == [line |-> 0, column |-> 0, message |-> ""]

Error(l, c, m) == [line |-> l, column |-> c, message |-> m]

Ok(buf) == [ok |-> TRUE, bc |-> buf, err |-> NoError]

Err(buf, e) == [ok |-> FALSE, bc |-> buf, err |-> e]

(***************************************************************************)
(* emit_bytecode of the five node types.                                   *)
(***************************************************************************)
RECURSIVE emit_bytecode(_, _, _)
RECURSIVE emit_arguments(_, _, _, _)

f64_emit_bytecode(self, e, buf) == Ok(Append(buf, LoadConst(self.value)))

IdentifierExpr_emit_bytecode(self, e, buf) ==
    LET index == index_of_item(e, self.identifier)
    IN  IF index = None
        THEN Err(buf, Error(self.line, self.column, "identifier not found"))
        ELSE Ok(Append(buf, LoadItem(index)))

\* variant: the left operand is emitted before the right one
BinaryExpr_emit_bytecode_LeftFirst(self, e, buf) ==
    LET l == emit_bytecode(self.left, e, buf)
    IN  IF ~l.ok THEN l
        ELSE LET r == emit_bytecode(self.right, e, l.bc)
             IN  IF ~r.ok THEN r
                 ELSE Ok(Append(r.bc, BinaryOpcode(self.operator)))

\* variant: the opcode is pushed although the left operand failed
BinaryExpr_emit_bytecode_PushAfterFail(self, e, buf) ==
    LET r == emit_bytecode(self.right, e, buf)
    IN  IF ~r.ok THEN r
        ELSE LET l == emit_bytecode(self.left, e, r.bc)
             IN  IF ~l.ok
                 THEN Err(Append(l.bc, BinaryOpcode(self.operator)), l.err)
                 ELSE Ok(Append(l.bc, BinaryOpcode(self.operator)))

BinaryExpr_emit_bytecode(self, e, buf) ==
    LET r == emit_bytecode(self.right, e, buf)
    IN  IF ~r.ok THEN r
        ELSE LET l == emit_bytecode(self.left, e, r.bc)
             IN  IF ~l.ok THEN l
                 ELSE Ok(Append(l.bc, BinaryOpcode(self.operator)))

\* variant: the arguments are emitted first to last
emit_arguments_Forward(args, i, e, buf) ==
    IF i = 0 THEN Ok(buf)
    ELSE LET a == emit_bytecode(args[Len(args) - i + 1], e, buf)
         IN  IF ~a.ok THEN a ELSE emit_arguments(args, i - 1, e, a.bc)

\* for i in (0..self.arguments.len()).rev(): arguments i, i-1, .., 1 (1-based)
emit_arguments(args, i, e, buf) ==
    IF i = 0 THEN Ok(buf)
    ELSE LET a == emit_bytecode(args[i], e, buf)
         IN  IF ~a.ok THEN a ELSE emit_arguments(args, i - 1, e, a.bc)

\* variant: only too few arguments are rejected
CallExpr_emit_bytecode_TooFew(self, e, buf) ==
    LET a == emit_arguments(self.arguments, Len(self.arguments), e, buf)
        info == function_info(e, self.function)
        expected_args == CASE info.func = "Single" -> 1
                           [] info.func = "Double" -> 2
                           [] info.func = "Triple" -> 3
                           [] OTHER -> 0
    IN  IF ~a.ok THEN a
        ELSE IF info.index = None
        THEN Err(a.bc, Error(self.line, self.column, "function not found"))
        ELSE IF info.func = "Vararg"
        THEN Ok(Append(a.bc, CallVararg(info.index, Len(self.arguments),
                                        self.line, self.column)))
        ELSE IF expected_args # 0 /\ Len(self.arguments) < expected_args
        THEN Err(a.bc, Error(self.line, self.column, "invalid num args"))
        ELSE Ok(Append(a.bc, Call(info.index, self.line, self.column)))

\* variant: an unbound function is reported with the identifier's message
CallExpr_emit_bytecode_WrongMessage(self, e, buf) ==
    LET a == emit_arguments(self.arguments, Len(self.arguments), e, buf)
        info == function_info(e, self.function)
        expected_args == CASE info.func = "Single" -> 1
                           [] info.func = "Double" -> 2
                           [] info.func = "Triple" -> 3
                           [] OTHER -> 0
    IN  IF ~a.ok THEN a
        ELSE IF info.index = None
        THEN Err(a.bc, Error(self.line, self.column, "identifier not found"))
        ELSE IF info.func = "Vararg"
        THEN Ok(Append(a.bc, CallVararg(info.index, Len(self.arguments),
                                        self.line, self.column)))
        ELSE IF expected_args # 0 /\ Len(self.arguments) # expected_args
        THEN Err(a.bc, Error(self.line, self.column, "invalid num args"))
        ELSE Ok(Append(a.bc, Call(info.index, self.line, self.column)))

\* variant: an arity failure leaves the buffer as it was before the arguments
CallExpr_emit_bytecode_DropsArguments(self, e, buf) ==
    LET a == emit_arguments(self.arguments, Len(self.arguments), e, buf)
        info == function_info(e, self.function)
        expected_args == CASE info.func = "Single" -> 1
                           [] info.func = "Double" -> 2
                           [] info.func = "Triple" -> 3
                           [] OTHER -> 0
    IN  IF ~a.ok THEN a
        ELSE IF info.index = None
        THEN Err(a.bc, Error(self.line, self.column, "function not found"))
        ELSE IF info.func = "Vararg"
        THEN Ok(Append(a.bc, CallVararg(info.index, Len(self.arguments),
                                        self.line, self.column)))
        ELSE IF expected_args # 0 /\ Len(self.arguments) # expected_args
        THEN Err(buf, Error(self.line, self.column, "invalid num args"))
        ELSE Ok(Append(a.bc, Call(info.index, self.line, self.column)))

CallExpr_emit_bytecode(self, e, buf) ==
    LET a == emit_arguments(self.arguments, Len(self.arguments), e, buf)
        info == function_info(e, self.function)
        expected_args == CASE info.func = "Single" -> 1
                           [] info.func = "Double" -> 2
                           [] info.func = "Triple" -> 3
                           [] OTHER -> 0
    IN  IF ~a.ok THEN a
        ELSE IF info.index = None
        THEN Err(a.bc, Error(self.line, self.column, "function not found"))
        ELSE IF info.func = "Vararg"
        THEN Ok(Append(a.bc, CallVararg(info.index, Len(self.arguments),
                                        self.line, self.column)))
        ELSE IF expected_args # 0 /\ Len(self.arguments) # expected_args
        THEN Err(a.bc, Error(self.line, self.column, "invalid num args"))
        ELSE Ok(Append(a.bc, Call(info.index, self.line, self.column)))

\* variant: the JumpIfZero does not count the Jump that ends the true branch
ConditionalExpr_emit_bytecode_ShortJumpIfZero(self, e, buf) ==
    LET f == emit_bytecode(self.when_false, e, <<>>)
        t == emit_bytecode(self.when_true, e, <<>>)
        false_path == f.bc
        true_path == Append(t.bc, Jump(Len(false_path)))
        c == emit_bytecode(self.condition, e, buf)
    IN  IF ~f.ok THEN Err(buf, f.err)
        ELSE IF ~t.ok THEN Err(buf, t.err)
        ELSE IF ~c.ok THEN c
        ELSE Ok(Append(c.bc, JumpIfZero(Len(t.bc)))
                  \o true_path \o false_path)

\* variant: the Jump carries the length of the true branch
ConditionalExpr_emit_bytecode_JumpOverTrue(self, e, buf) ==
    LET f == emit_bytecode(self.when_false, e, <<>>)
        t == emit_bytecode(self.when_true, e, <<>>)
        false_path == f.bc
        true_path == Append(t.bc, Jump(Len(t.bc)))
        c == emit_bytecode(self.condition, e, buf)
    IN  IF ~f.ok THEN Err(buf, f.err)
        ELSE IF ~t.ok THEN Err(buf, t.err)
        ELSE IF ~c.ok THEN c
        ELSE Ok(Append(c.bc, JumpIfZero(Len(true_path)))
                  \o true_path \o false_path)

\* variant: the Jump skips one instruction more than the false branch
ConditionalExpr_emit_bytecode_LongJump(self, e, buf) ==
    LET f == emit_bytecode(self.when_false, e, <<>>)
        t == emit_bytecode(self.when_true, e, <<>>)
        false_path == f.bc
        true_path == Append(t.bc, Jump(Len(false_path) + 1))
        c == emit_bytecode(self.condition, e, buf)
    IN  IF ~f.ok THEN Err(buf, f.err)
        ELSE IF ~t.ok THEN Err(buf, t.err)
        ELSE IF ~c.ok THEN c
        ELSE Ok(Append(c.bc, JumpIfZero(Len(true_path)))
                  \o true_path \o false_path)

ConditionalExpr_emit_bytecode(self, e, buf) ==
    LET f == emit_bytecode(self.when_false, e, <<>>)
        t == emit_bytecode(self.when_true, e, <<>>)
        false_path == f.bc
        true_path == Append(t.bc, Jump(Len(false_path)))
        c == emit_bytecode(self.condition, e, buf)
    IN  IF ~f.ok THEN Err(buf, f.err)
        ELSE IF ~t.ok THEN Err(buf, t.err)
        ELSE IF ~c.ok THEN c
        ELSE Ok(Append(c.bc, JumpIfZero(Len(true_path)))
                  \o true_path \o false_path)

emit_bytecode(self, e, buf) ==
    CASE self.kind = "Conditional" -> ConditionalExpr_emit_bytecode(self, e, buf)
      [] self.kind = "Binary" -> BinaryExpr_emit_bytecode(self, e, buf)
      [] self.kind = "Call" -> CallExpr_emit_bytecode(self, e, buf)
      [] self.kind = "Identifier" -> IdentifierExpr_emit_bytecode(self, e, buf)
      [] self.kind = "Const" -> f64_emit_bytecode(self, e, buf)

(***************************************************************************)
(* values_equal of the five node types.                                    *)
(***************************************************************************)
RECURSIVE values_equal(_, _)

ConditionalExpr_values_equal(self, o) ==
    /\ o.kind = "Conditional"
    /\ values_equal(self.condition, o.condition)
    /\ values_equal(self.when_true, o.when_true)
    /\ values_equal(self.when_false, o.when_false)

BinaryExpr_values_equal(self, o) ==
    /\ o.kind = "Binary"
    /\ values_equal(self.left, o.left)
    /\ self.operator = o.operator
    /\ values_equal(self.right, o.right)

CallExpr_values_equal(self, o) ==
    /\ o.kind = "Call"
    /\ Len(self.arguments) = Len(o.arguments)
    /\ \A i \in 1..Len(self.arguments) :
           values_equal(self.arguments[i], o.arguments[i])
    /\ self.function = o.function

\* variant: the positions are compared too
IdentifierExpr_values_equal_Positions(self, o) ==
    /\ o.kind = "Identifier"
    /\ o.identifier = self.identifier
    /\ o.line = self.line
    /\ o.column = self.column

IdentifierExpr_values_equal(self, o) ==
    /\ o.kind = "Identifier"
    /\ o.identifier = self.identifier

f64_values_equal(self, o) ==
    /\ o.kind = "Const"
    /\ F64Eq(o.value, self.value)

values_equal(self, o) ==
    CASE self.kind = "Conditional" -> ConditionalExpr_values_equal(self, o)
      [] self.kind = "Binary" -> BinaryExpr_values_equal(self, o)
      [] self.kind = "Call" -> CallExpr_values_equal(self, o)
      [] self.kind = "Identifier" -> IdentifierExpr_values_equal(self, o)
      [] self.kind = "Const" -> f64_values_equal(self, o)

(***************************************************************************)
(* Expression trees handed to the compiler.  TreesOfSize(n, A) is every    *)
(* tree of exactly n nodes over the alphabet A (leaves, operator tags,     *)
(* call heads); NestTrees(d) is every tree of depth at most d built from   *)
(* conditionals, whose conditions have depth at most 1, and one-argument   *)
(* calls.                                                                  *)
(***************************************************************************)
RECURSIVE TreesOfSize(_, _)
RECURSIVE ArgLists(_, _, _)

CallWith(h, args) == CallExpr(h.line, h.column, h.function, args)

TreesOfSize(n, A) ==
    IF n = 1
    THEN A.leaves \cup {CallWith(h, <<>>) : h \in A.calls}
    ELSE UNION {{BinaryExpr(l, o, r) :
                    l \in TreesOfSize(i, A), o \in A.ops,
                    r \in TreesOfSize(n - 1 - i, A)} : i \in 1..(n - 2)}
         \cup
         UNION {{ConditionalExpr(c, t, f) :
                    c \in TreesOfSize(p[1], A), t \in TreesOfSize(p[2], A),
                    f \in TreesOfSize(n - 1 - p[1] - p[2], A)} :
                p \in {q \in (1..(n - 3)) \X (1..(n - 3)) : q[1] + q[2] <= n - 2}}
         \cup
         {CallWith(h, args) :
             h \in A.calls,
             args \in UNION {ArgLists(n - 1, k, A) : k \in 1..A.maxargs}}

ArgLists(total, k, A) ==
    IF k = 0
    THEN IF total = 0 THEN {<<>>} ELSE {}
    ELSE UNION {{<<t>> \o rest :
                    t \in TreesOfSize(i, A),
                    rest \in ArgLists(total - i, k - 1, A)} :
                i \in 1..(total - (k - 1))}

TreesUpTo(n, A) == UNION {TreesOfSize(i, A) : i \in 1..n}

RECURSIVE SeqsUpTo(_, _)
SeqsUpTo(S, n) ==
    IF n = 0 THEN {<<>>}
    ELSE LET R == SeqsUpTo(S, n - 1)
         IN  R \cup {Append(q, x) : q \in {r \in R : Len(r) = n - 1}, x \in S}

GenAlphabet ==
    [leaves |-> {Const(F64(1)), IdentifierExpr(2, 1, "u")},
     ops |-> {"Sub"},
     calls |-> {[line |-> 3, column |-> 4, function |-> "one"],
                [line |-> 5, column |-> 6, function |-> "nofn"]},
     maxargs |-> MaxArgs]

GenTrees == TreesUpTo(MaxNodes, GenAlphabet)

RECURSIVE NestTrees(_)
NestTrees(d) ==
    IF d = 0 THEN {Const(F64(1))}
    ELSE LET S == NestTrees(d - 1)
             C == NestTrees(IF d = 1 THEN 0 ELSE 1)
         IN  S \cup {ConditionalExpr(c, t, f) : c \in C, t \in S, f \in S}
               \cup {CallExpr(4, 3, "var", <<a>>) : a \in S}

Operands ==
    {Const(F64(5)), Const(F64(2)), IdentifierExpr(1, 2, "x"),
     IdentifierExpr(2, 1, "u"), CallExpr(3, 4, "one", <<Const(F64(2))>>)}

BinaryTrees ==
    {BinaryExpr(l, o, r) : l \in Operands, o \in BinaryOperator, r \in Operands}

CallArgs == {Const(F64(2)), BinaryExpr(Const(F64(5)), "Sub", Const(F64(1)))}

CallHeads ==
    {[line |-> p[1], column |-> p[2], function |-> f] :
        p \in {<<7, 8>>, <<8, 7>>},
        f \in {"one", "two", "three", "var", "nofn"}}

CallTrees ==
    {CallWith(h, args) : h \in CallHeads, args \in SeqsUpTo(CallArgs, MaxArgs)}

EmitInputs == GenTrees \cup NestTrees(MaxDepth) \cup BinaryTrees \cup CallTrees

Env1 ==
    [items |-> <<"x", "y">>,
     functions |-> <<[name |-> "one", sig |-> "Single"],
                     [name |-> "two", sig |-> "Double"],
                     [name |-> "three", sig |-> "Triple"],
                     [name |-> "var", sig |-> "Vararg"]>>]

Env2 ==
    [items |-> <<"y", "u">>,
     functions |-> <<[name |-> "var", sig |-> "Vararg"],
                     [name |-> "one", sig |-> "Double"],
                     [name |-> "nofn", sig |-> "Single"]>>]

Envs == {Env1, Env2}

(***************************************************************************)
(* Compilation: the caller owns the buffer bc and asks the root node to    *)
(* emit into it; a second emission appends to what the first one left.     *)
(***************************************************************************)
Pending == [status |-> "Pending", err |-> NoError]

Init ==
    /\ expr \in EmitInputs
    /\ env \in Envs
    /\ other = expr
    /\ bc = <<>>
    /\ prior = <<>>
    /\ result = Pending
    /\ equal = FALSE
    /\ runs = 0

Returned(r) ==
    /\ runs < MaxRuns
    /\ prior' = bc
    /\ bc' = r.bc
    /\ result' = [status |-> IF r.ok THEN "Ok" ELSE "Err", err |-> r.err]
    /\ runs' = runs + 1
    /\ UNCHANGED <<expr, other, env, equal>>

EmitConditional ==
    /\ expr.kind = "Conditional"
    /\ Returned(ConditionalExpr_emit_bytecode(expr, env, bc))

EmitBinary ==
    /\ expr.kind = "Binary"
    /\ Returned(BinaryExpr_emit_bytecode(expr, env, bc))

EmitCall ==
    /\ expr.kind = "Call"
    /\ Returned(CallExpr_emit_bytecode(expr, env, bc))

EmitIdentifier ==
    /\ expr.kind = "Identifier"
    /\ Returned(IdentifierExpr_emit_bytecode(expr, env, bc))

EmitConst ==
    /\ expr.kind = "Const"
    /\ Returned(f64_emit_bytecode(expr, env, bc))

Next ==
    \/ EmitConditional
    \/ EmitBinary
    \/ EmitCall
    \/ EmitIdentifier
    \/ EmitConst

Spec == Init /\ [][Next]_vars

(***************************************************************************)
(* Vocabulary of the properties.                                           *)
(***************************************************************************)
Emitted == runs > 0

\* what a node emits into an empty buffer
Alone(e) == emit_bytecode(e, env, <<>>)

Code(e) == Alone(e).bc

RECURSIVE RevCode(_, _)
\* the instructions of arguments i, i-1, .., 1, in that order
RevCode(args, i) ==
    IF i = 0 THEN <<>> ELSE Code(args[i]) \o RevCode(args, i - 1)

AllArgsEmit(e) == \A i \in 1..Len(e.arguments) : Alone(e.arguments[i]).ok

Bound(e) == function_info(env, e.function).index # None

Signature(e) == function_info(env, e.function).func

Arity(sig) ==
    CASE sig = "Single" -> 1 [] sig = "Double" -> 2 [] sig = "Triple" -> 3

FixedArity(e) == Signature(e) \in {"Single", "Double", "Triple"}

\* the instructions appended by the last emission
Appended == SubSeq(bc, Len(prior) + 1, Len(bc))

KeepsPrior == Len(bc) >= Len(prior) /\ SubSeq(bc, 1, Len(prior)) = prior

\* C1: a Conditional whose three children emit appends cond, JumpIfZero,
\* when_true, Jump, when_false; the Jump skips the false branch and the
\* JumpIfZero skips the true branch and the Jump after it.
C1_ConditionalLayout ==
    (/\ Emitted
     /\ expr.kind = "Conditional"
     /\ Alone(expr.condition).ok
     /\ Alone(expr.when_true).ok
     /\ Alone(expr.when_false).ok)
    => /\ result.status = "Ok"
       /\ bc = prior \o Code(expr.condition)
                     \o <<JumpIfZero(Len(Code(expr.when_true)) + 1)>>
                     \o Code(expr.when_true)
                     \o <<Jump(Len(Code(expr.when_false)))>>
                     \o Code(expr.when_false)

C1_Witness ==
    /\ Emitted
    /\ expr.kind = "Conditional"
    /\ result.status = "Ok"
    /\ Len(prior) > 0
    /\ Len(Code(expr.condition)) > 1
    /\ Len(Code(expr.when_true)) > 1

\* the two jumps of the conditional at the root, when its children emit
RootJumpIfZero == bc[Len(prior) + Len(Code(expr.condition)) + 1]

RootJump ==
    bc[Len(prior) + Len(Code(expr.condition)) + Len(Code(expr.when_true)) + 2]

RootConditionalEmits ==
    /\ Emitted
    /\ expr.kind = "Conditional"
    /\ Alone(expr.condition).ok
    /\ Alone(expr.when_true).ok
    /\ Alone(expr.when_false).ok

\* C2 as stated: with when_true of n instructions and when_false of m, the
\* JumpIfZero carries n and the Jump carries m.
C2_Original ==
    RootConditionalEmits
    => /\ RootJumpIfZero = JumpIfZero(Len(Code(expr.when_true)))
       /\ RootJump = Jump(Len(Code(expr.when_false)))

\* C2 amended: with when_true of n instructions and when_false of m, the
\* JumpIfZero carries n + 1 and the Jump carries m, and n + m + 2
\* instructions follow the condition.
C2_JumpOffsets ==
    RootConditionalEmits
    => /\ RootJumpIfZero = JumpIfZero(Len(Code(expr.when_true)) + 1)
       /\ RootJump = Jump(Len(Code(expr.when_false)))
       /\ Len(bc) = Len(prior) + Len(Code(expr.condition))
                      + Len(Code(expr.when_true))
                      + Len(Code(expr.when_false)) + 2

C2_Witness ==
    /\ RootConditionalEmits
    /\ Len(Code(expr.when_true)) = 1
    /\ Len(Code(expr.when_false)) = 2
    /\ RootJumpIfZero = JumpIfZero(2)
    /\ RootJump = Jump(2)

\* C3: a Binary whose operands emit appends the right operand, then the
\* left operand, then the one opcode named like its operator.
C3_BinaryOrder ==
    (/\ Emitted
     /\ expr.kind = "Binary"
     /\ Alone(expr.left).ok
     /\ Alone(expr.right).ok)
    => /\ result.status = "Ok"
       /\ bc = prior \o Code(expr.right) \o Code(expr.left)
                     \o <<[op |-> expr.operator]>>

C3_Witness ==
    /\ Emitted
    /\ expr = BinaryExpr(Const(F64(5)), "Sub", Const(F64(2)))
    /\ result.status = "Ok"
    /\ Appended = <<LoadConst(F64(2)), LoadConst(F64(5)), [op |-> "Sub"]>>

\* C4: a Call that emits appends its arguments last to first and then one
\* Call (fixed arity) or CallVararg (with the argument count).
C4_CallLayout ==
    (/\ Emitted
     /\ expr.kind = "Call"
     /\ result.status = "Ok")
    => /\ Bound(expr)
       /\ bc = prior
               \o RevCode(expr.arguments, Len(expr.arguments))
               \o <<IF Signature(expr) = "Vararg"
                    THEN CallVararg(function_info(env, expr.function).index,
                                    Len(expr.arguments), expr.line,
                                    expr.column)
                    ELSE Call(function_info(env, expr.function).index,
                              expr.line, expr.column)>>

C4_Witness ==
    /\ Emitted
    /\ expr.kind = "Call"
    /\ result.status = "Ok"
    /\ Len(expr.arguments) = 3
    /\ expr.arguments[1] # expr.arguments[3]
    /\ bc[Len(bc)].op = "Call"
    /\ Len(prior) > 0

\* C5: a bound Call whose arguments emit fails, with "invalid num args" at
\* its own position, exactly when its signature is fixed and the argument
\* count differs from it.
C5_ArityEnforced ==
    (/\ Emitted
     /\ expr.kind = "Call"
     /\ Bound(expr)
     /\ AllArgsEmit(expr))
    => /\ (result.status = "Err")
            <=> (/\ FixedArity(expr)
                 /\ Len(expr.arguments) # Arity(Signature(expr)))
       /\ result.status = "Err"
            => result.err = Error(expr.line, expr.column, "invalid num args")

C5_Witness ==
    /\ Emitted
    /\ expr.kind = "Call"
    /\ Signature(expr) = "Double"
    /\ Len(expr.arguments) = 3
    /\ result.status = "Err"
    /\ result.err.message = "invalid num args"

\* C6 as stated: a Call of an unbound function fails with "function not
\* found" at its own position, whatever its arguments.
C6_Original ==
    (/\ Emitted
     /\ expr.kind = "Call"
     /\ ~Bound(expr))
    => /\ result.status = "Err"
       /\ result.err = Error(expr.line, expr.column, "function not found")

\* C6 amended: a Call of an unbound function whose arguments all emit
\* fails with "function not found" at its own position.
C6_UnboundFunction ==
    (/\ Emitted
     /\ expr.kind = "Call"
     /\ ~Bound(expr)
     /\ AllArgsEmit(expr))
    => /\ result.status = "Err"
       /\ result.err = Error(expr.line, expr.column, "function not found")

C6_Witness ==
    /\ Emitted
    /\ expr.kind = "Call"
    /\ ~Bound(expr)
    /\ Len(expr.arguments) > 0
    /\ AllArgsEmit(expr)
    /\ result.err.message = "function not found"

\* C9: when a fixed-arity Call whose arguments emit fails the arity check,
\* the buffer is its prior contents followed by the arguments' instructions
\* last to first, with no call instruction.
C9_ArityFailureBuffer ==
    (/\ Emitted
     /\ expr.kind = "Call"
     /\ Bound(expr)
     /\ FixedArity(expr)
     /\ AllArgsEmit(expr)
     /\ Len(expr.arguments) # Arity(Signature(expr)))
    => /\ KeepsPrior
       /\ Appended = RevCode(expr.arguments, Len(expr.arguments))

C9_Witness ==
    /\ Emitted
    /\ expr.kind = "Call"
    /\ result.status = "Err"
    /\ result.err.message = "invalid num args"
    /\ Len(prior) > 0
    /\ Len(bc) > Len(prior) + 2

(***************************************************************************)
(* Offending nodes and the instructions a failing emission leaves.         *)
(***************************************************************************)
RECURSIVE Nodes(_)
Nodes(e) ==
    {e} \cup
    CASE e.kind = "Conditional" ->
            Nodes(e.condition) \cup Nodes(e.when_true) \cup Nodes(e.when_false)
      [] e.kind = "Binary" -> Nodes(e.left) \cup Nodes(e.right)
      [] e.kind = "Call" ->
            UNION {Nodes(e.arguments[i]) : i \in 1..Len(e.arguments)}
      [] OTHER -> {}

\* the error a node raises by itself, NoError when it raises none
Offence(n) ==
    IF n.kind = "Identifier" /\ index_of_item(env, n.identifier) = None
    THEN Error(n.line, n.column, "identifier not found")
    ELSE IF n.kind = "Call" /\ ~Bound(n)
    THEN Error(n.line, n.column, "function not found")
    ELSE IF /\ n.kind = "Call"
            /\ FixedArity(n)
            /\ Len(n.arguments) # Arity(Signature(n))
    THEN Error(n.line, n.column, "invalid num args")
    ELSE NoError

Offending(n) == Offence(n) # NoError

Faulty(e) == \E n \in Nodes(e) : Offending(n)

RECURSIVE Partial(_)
RECURSIVE PartialArgs(_, _)
\* what a tree has appended to its caller's buffer when its emission stops:
\* all its instructions when it has no offending node, otherwise those of
\* the subtrees finished before the first failure
Partial(e) ==
    IF ~Faulty(e) THEN Code(e)
    ELSE CASE e.kind = "Conditional" ->
                 IF Faulty(e.when_false) \/ Faulty(e.when_true)
                 THEN <<>>
                 ELSE Partial(e.condition)
           [] e.kind = "Binary" ->
                 IF Faulty(e.right)
                 THEN Partial(e.right)
                 ELSE Code(e.right) \o Partial(e.left)
           [] e.kind = "Call" -> PartialArgs(e.arguments, Len(e.arguments))
           [] OTHER -> <<>>

PartialArgs(args, i) ==
    IF i = 0 THEN <<>>
    ELSE IF Faulty(args[i]) THEN Partial(args[i])
    ELSE Code(args[i]) \o PartialArgs(args, i - 1)

\* C8: emission succeeds exactly when the tree has no offending node; a
\* failure returns the error of an offending node, with that node's line
\* and column, and nothing is appended after the failure.
C8_ErrorsAbort ==
    Emitted
    => /\ (result.status = "Ok") <=> ~Faulty(expr)
       /\ result.status = "Err"
            => /\ \E n \in Nodes(expr) :
                      Offending(n) /\ result.err = Offence(n)
               /\ bc = prior \o Partial(expr)

C8_Witness ==
    /\ Emitted
    /\ result.status = "Err"
    /\ expr.kind = "Binary"
    /\ expr.left.kind = "Call"
    /\ Faulty(expr.left)
    /\ ~Offending(expr.left)
    /\ Len(bc) > Len(prior)

(***************************************************************************)
(* The abstract stack machine of the emitted instructions.                 *)
(***************************************************************************)
Pops(i) ==
    CASE i.op \in {"LoadConst", "LoadItem", "Jump"} -> 0
      [] i.op = "JumpIfZero" -> 1
      [] i.op = "Call" -> Arity(env.functions[i.func_index + 1].sig)
      [] i.op = "CallVararg" -> i.num_args
      [] OTHER -> 2

Pushes(i) == IF i.op \in {"Jump", "JumpIfZero"} THEN 0 ELSE 1

RECURSIVE RunsWell(_, _, _, _)
\* every run of program from instruction pc (1-based) at stack depth d
\* stays at or above depth floor, stays inside the program, and halts at
\* its end with depth floor + 1
RunsWell(program, pc, d, floor) ==
    IF pc = Len(program) + 1 THEN d = floor + 1
    ELSE IF pc > Len(program) + 1 THEN FALSE
    ELSE LET i == program[pc]
             after == d - Pops(i) + Pushes(i)
         IN  /\ d - Pops(i) >= floor
             /\ CASE i.op = "JumpIfZero" ->
                        /\ RunsWell(program, pc + 1, after, floor)
                        /\ RunsWell(program, pc + 1 + i.offset, after, floor)
                  [] i.op = "Jump" ->
                        RunsWell(program, pc + 1 + i.offset, after, floor)
                  [] OTHER -> RunsWell(program, pc + 1, after, floor)

RECURSIVE JumpsLand(_, _, _)
RECURSIVE ArgJumpsLand(_, _, _, _)
\* e's instructions start after the first `start` instructions of program:
\* every JumpIfZero of e targets the first instruction of its false branch
\* and every Jump the instruction after its false branch
JumpsLand(e, program, start) ==
    CASE e.kind = "Conditional" ->
            LET jz == start + Len(Code(e.condition)) + 1
                jmp == jz + Len(Code(e.when_true)) + 1
            IN  /\ program[jz].op = "JumpIfZero"
                /\ jz + 1 + program[jz].offset = jmp + 1
                /\ program[jmp].op = "Jump"
                /\ jmp + 1 + program[jmp].offset
                      = jmp + Len(Code(e.when_false)) + 1
                /\ JumpsLand(e.condition, program, start)
                /\ JumpsLand(e.when_true, program, jz)
                /\ JumpsLand(e.when_false, program, jmp)
      [] e.kind = "Binary" ->
            /\ JumpsLand(e.right, program, start)
            /\ JumpsLand(e.left, program, start + Len(Code(e.right)))
      [] e.kind = "Call" ->
            ArgJumpsLand(e.arguments, Len(e.arguments), program, start)
      [] OTHER -> TRUE

ArgJumpsLand(args, i, program, start) ==
    \/ i = 0
    \/ /\ JumpsLand(args[i], program, start)
       /\ ArgJumpsLand(args, i - 1, program, start + Len(Code(args[i])))

\* C10: the instructions of a successful emission run, on every outcome of
\* every JumpIfZero, without popping below the starting depth or leaving
\* the sequence, and halt at its end one value deeper; the jumps land on
\* the false branch and right after it.
C10_StackProgram ==
    (Emitted /\ result.status = "Ok")
    => /\ KeepsPrior
       /\ RunsWell(Appended, 1, 0, 0)
       /\ JumpsLand(expr, bc, Len(prior))

C10_Witness ==
    /\ Emitted
    /\ result.status = "Ok"
    /\ expr.kind = "Conditional"
    /\ expr.when_true.kind = "Conditional"
    /\ expr.when_false.kind = "Call"
    /\ expr.condition.kind = "Conditional"
    /\ Len(prior) > 0

(***************************************************************************)
(* Comparison: a caller holding two trees asks the first whether it equals *)
(* the second.  The trees are all shapes of at most MaxEqNodes nodes over  *)
(* one leaf, one operator and one call head, and trees of every variant    *)
(* whose constants, names, operators, positions and argument lists vary.   *)
(***************************************************************************)
ShapeAlphabet ==
    [leaves |-> {IdentifierExpr(1, 2, "x")},
     ops |-> {"Add"},
     calls |-> {[line |-> 1, column |-> 2, function |-> "f"]},
     maxargs |-> MaxEqNodes]

EqLeaves ==
    {Const(F64(0)), Const(NegZero), Const(NaN), Const(F64(1)),
     IdentifierExpr(1, 2, "x"), IdentifierExpr(2, 1, "x"),
     IdentifierExpr(1, 2, "y")}

EqOperands ==
    {Const(F64(1)), IdentifierExpr(1, 2, "x"), IdentifierExpr(2, 1, "x")}

EqHeads ==
    {[line |-> 1, column |-> 2, function |-> "f"],
     [line |-> 3, column |-> 4, function |-> "f"],
     [line |-> 1, column |-> 2, function |-> "g"]}

EqCalls ==
    {CallWith(h, args) : h \in EqHeads, args \in SeqsUpTo(EqOperands, MaxEqArgs)}

EqBinaries ==
    {BinaryExpr(l, o, r) :
        l \in EqOperands, o \in BinaryOperator, r \in EqOperands}

EqConditionals ==
    {ConditionalExpr(c, t, f) :
        c \in EqOperands, t \in EqOperands, f \in EqOperands}

EqNested ==
    {ConditionalExpr(Const(F64(1)), c, b) :
        c \in {d \in EqCalls : Len(d.arguments) <= 1},
        b \in {BinaryExpr(IdentifierExpr(1, 2, "x"), "Add", Const(NaN)),
               BinaryExpr(IdentifierExpr(2, 1, "x"), "Add", Const(F64(1)))}}

EqInputs ==
    TreesUpTo(MaxEqNodes, ShapeAlphabet) \cup EqLeaves \cup EqCalls
        \cup EqBinaries \cup EqConditionals \cup EqNested

InitEq ==
    /\ expr \in EqInputs
    /\ env = Env1
    /\ other = expr
    /\ bc = <<>>
    /\ prior = <<>>
    /\ result = Pending
    /\ equal = FALSE
    /\ runs = 0

Answered(o, r) ==
    /\ runs = 0
    /\ other' = o
    /\ equal' = r
    /\ runs' = 1
    /\ UNCHANGED <<expr, env, bc, prior, result>>

EqualConditional ==
    /\ expr.kind = "Conditional"
    /\ \E o \in EqInputs : Answered(o, ConditionalExpr_values_equal(expr, o))

EqualBinary ==
    /\ expr.kind = "Binary"
    /\ \E o \in EqInputs : Answered(o, BinaryExpr_values_equal(expr, o))

EqualCall ==
    /\ expr.kind = "Call"
    /\ \E o \in EqInputs : Answered(o, CallExpr_values_equal(expr, o))

EqualIdentifier ==
    /\ expr.kind = "Identifier"
    /\ \E o \in EqInputs : Answered(o, IdentifierExpr_values_equal(expr, o))

EqualConst ==
    /\ expr.kind = "Const"
    /\ \E o \in EqInputs : Answered(o, f64_values_equal(expr, o))

NextEq ==
    \/ EqualConditional
    \/ EqualBinary
    \/ EqualCall
    \/ EqualIdentifier
    \/ EqualConst

SpecEq == InitEq /\ [][NextEq]_vars

(***************************************************************************)
(* Trees with the source positions erased.                                 *)
(***************************************************************************)
RECURSIVE Erase(_)
\* the tree without the line and column of its nodes; the two zeros of f64
\* are numerically one value
Erase(e) ==
    CASE e.kind = "Conditional" ->
            [kind |-> "Conditional", condition |-> Erase(e.condition),
             when_true |-> Erase(e.when_true),
             when_false |-> Erase(e.when_false)]
      [] e.kind = "Binary" ->
            [kind |-> "Binary", left |-> Erase(e.left),
             operator |-> e.operator, right |-> Erase(e.right)]
      [] e.kind = "Call" ->
            [kind |-> "Call", function |-> e.function,
             arguments |-> [i \in 1..Len(e.arguments) |-> Erase(e.arguments[i])]]
      [] e.kind = "Identifier" ->
            [kind |-> "Identifier", identifier |-> e.identifier]
      [] e.kind = "Const" ->
            [kind |-> "Const",
             value |-> IF e.value.mag = 0 /\ e.value.tag = "num"
                       THEN F64(0) ELSE e.value]

HasNaN(e) == \E n \in Nodes(e) : n.kind = "Const" /\ n.value.tag = "nan"

Asked == runs > 0

\* C7: values_equal answers true exactly when the two trees are the same
\* once positions are erased, constants being compared numerically (NaN
\* equals nothing); nodes of different variants are never equal and the
\* answer does not depend on which tree is asked.
C7_ValuesEqual ==
    Asked
    => /\ equal <=> (Erase(expr) = Erase(other) /\ ~HasNaN(expr))
       /\ expr.kind # other.kind => ~equal
       /\ equal <=> values_equal(other, expr)

C7_Witness ==
    /\ Asked
    /\ equal
    /\ expr # other
    /\ expr.kind = "Conditional"
    /\ expr.when_true.kind = "Call"
    /\ expr.when_true.line # other.when_true.line
    /\ Len(expr.when_true.arguments) > 0
    /\ expr.when_true.arguments # other.when_true.arguments

====
